---------------------------- MODULE Spec2Model ----------------------------
(***************************************************************************)
(* coco-gh: a client over GitHub's GraphQL (tree query) and REST (commit   *)
(* history) capabilities.  The model covers the two public operations of   *)
(* src/github.go, GetFilePathsForRepositories and GetChangedFilePathsSince,*)
(* step by step between capability calls, with the capabilities' answers   *)
(* chosen by the environment.                                              *)
(*                                                                         *)
(* A Go string is modelled as a sequence of symbols ("d", "/", ".md", ...);*)
(* HasPrefix, HasSuffix and concatenation work on those sequences.  A nil  *)
(* slice and an empty slice are both the empty sequence <<>>.              *)
(***************************************************************************)
EXTENDS Integers, Sequences, FiniteSets, TLC

VARIABLES
    Configuration,  \* GitHub.Configuration (GitHubConfig)
    op,             \* the top-level call in progress: "none", "list", "changes"
    pc,             \* position of the call in progress
    repoIdx,        \* index of the repository the range loop is at
    files,          \* GetFilePathsForRepositories: var files []string
    stack,          \* getFilePathsForRepo: the recursion's frames, innermost last
    qlog,           \* history: every Query issued and its answer, in order
    call,           \* GetChangedFilePathsSince: hoursSince and time.Now()
    opt,            \* GetChangedFilePathsSince: opt *github.CommitsListOptions
    paths,          \* GetChangedFilePathsSince: var paths Paths
    repoPaths,      \* getChangedFilePathsForRepo: var paths Paths
    commits,        \* getChangedFilePathsForRepo: the commits still to fetch
    detail,         \* getChangedFilePathsForRepo: the files of commitDetails.Files
                    \* the loop has still to read
    mark,           \* history: the lengths of repoPaths' lists when detail arrived
    pathsM,         \* merged-interface client (GHClient): var paths Paths
    repoPathsM,     \* merged-interface client: getChangedFilePathsForRepo's paths
    heapM,          \* merged-interface client: backing arrays of repoPathsM's slices
    clog,           \* history: every ListCommits and GetCommit issued, in order
    detailed,       \* history: the files the commit details have held so far
    ret,            \* what the top-level call returned
    served          \* history: the client has served a call before

changesVars == <<call, opt, paths, repoPaths, commits, detail, mark,
                 pathsM, repoPathsM, heapM, clog, detailed>>

listVars == <<files, stack, qlog>>

-----------------------------------------------------------------------------
(* Bounds of the model *)

\* configured repositories
MaxRepos == 2

\* tree entries the tree-query capability serves in total during one call
MaxTreeEntries == 3

\* commits ListCommits returns in total during one call
MaxCommits == 2

\* files the commit details hold in total during one call
MaxFiles == 2


-----------------------------------------------------------------------------
(* Strings *)

\* strings.HasPrefix(s, prefix)
HasPrefix(s, prefix) ==
    /\ Len(prefix) <= Len(s)
    /\ SubSeq(s, 1, Len(prefix)) = prefix

\* strings.HasSuffix(s, suffix)
HasSuffix(s, suffix) ==
    /\ Len(suffix) <= Len(s)
    /\ SubSeq(s, Len(s) - Len(suffix) + 1, Len(s)) = suffix

\* the nil error
NoError == "nil"

\* errors a capability call can return
Errors == {"E1", "E2"}


-----------------------------------------------------------------------------
(* Configuration *)

\* GitHubConfig.Filter values configured for GetFilePathsForRepositories:
\* FilePath "d" with no FileTypes, FilePath "d" with [".md"], FilePath ""
\* with [".txt", "a.md"]
ListFilters ==
    {[FilePath |-> <<"d">>, FileTypes |-> <<>>],
     [FilePath |-> <<"d">>, FileTypes |-> << <<".md">> >>],
     [FilePath |-> <<>>, FileTypes |-> << <<".txt">>, <<"a", ".md">> >>]}

\* GitHubConfig.Filter values configured for GetChangedFilePathsSince:
\* FilePath "d" with no FileTypes, and FilePath "x" with no FileTypes and
\* with [".md"]
ChangesFilters ==
    {[FilePath |-> <<"d">>, FileTypes |-> <<>>],
     [FilePath |-> <<"x">>, FileTypes |-> <<>>],
     [FilePath |-> <<"x">>, FileTypes |-> << <<".md">> >>]}

\* GitHubConfig values: n distinct repositories, n = 0..MaxRepos
Configs(filters) ==
    [Owner : {"o"},
     Repositories : {[i \in 1..n |-> i] : n \in 0..MaxRepos},
     DefaultBranch : {"main"},
     Filter : filters]

-----------------------------------------------------------------------------
(* The tree-query capability (GraphQLClient.Query with GHQueryForListFiles) *)

\* names and types of the entries a tree can hold; "commit" is a submodule
EntryKinds ==
    {[Name |-> <<"a", ".md">>, Type |-> "blob"],
     [Name |-> <<"b", ".txt">>, Type |-> "blob"],
     [Name |-> <<"s">>, Type |-> "tree"],
     [Name |-> <<"t">>, Type |-> "tree"],
     [Name |-> <<"m">>, Type |-> "commit"]}

\* the directory an expression "branch:path" names, as a path from the
\* repository's root
DirPath(expression) ==
    LET p == SubSeq(expression, 3, Len(expression))
    IN IF p # <<>> /\ Head(p) = "/" THEN Tail(p) ELSE p

\* Entries[i].Path: the full path of an entry of the tree at expression
EntryPath(expression, name) ==
    IF DirPath(expression) = <<>> THEN name
    ELSE DirPath(expression) \o <<"/">> \o name

\* the entry lists a tree can hold with at most n entries: names are distinct
TreeListings(n) ==
    {s \in UNION {[1..k -> EntryKinds] : k \in 0..n} :
        \A i, j \in DOMAIN s : i # j => s[i].Name # s[j].Name}

\* what Query fills into query.Repository.Object.Tree.Entries
TreeEntries(expression, listing) ==
    [i \in DOMAIN listing |->
        [Name |-> listing[i].Name,
         Path |-> EntryPath(expression, listing[i].Name),
         Type |-> listing[i].Type]]

RECURSIVE Served(_)
\* tree entries served so far by the Query calls of a log
Served(log) ==
    IF log = <<>> THEN 0
    ELSE Len(Head(log).entries) + Served(Tail(log))

-----------------------------------------------------------------------------
(* GetFilePathsForRepositories *)

\* hasFileType: fileName ends with one of fileTypes
hasFileType(fileName, fileTypes) ==
    \E i \in DOMAIN fileTypes : HasSuffix(fileName, fileTypes[i])

\* FilterFiles without the len(FileTypes) == 0 return
FilterFiles_NoSentinel(fs, fileTypes) ==
    SelectSeq(fs, LAMBDA f : hasFileType(f, fileTypes))

\* the filter loop of GetFilePathsForRepositories
FilterFiles(fs, fileTypes) ==
    IF Len(fileTypes) = 0 THEN fs
    ELSE SelectSeq(fs, LAMBDA f : hasFileType(f, fileTypes))

\* fmt.Sprintf("%s:%s", DefaultBranch, Filter.FilePath)
RootExpression(cfg) == <<cfg.DefaultBranch, ":">> \o cfg.Filter.FilePath

\* expression + "/" + entry.Name
SubExpression(expression, name) == expression \o <<"/">> \o name

\* a frame of getFilePathsForRepo before its Query
NewFrame(expression) ==
    [expression |-> expression, entries |-> <<>>, files |-> <<>>]

\* Paths{}
EmptyPaths == [Added |-> <<>>, Removed |-> <<>>, Modified |-> <<>>]

NoResult == [files |-> <<>>, paths |-> EmptyPaths, pathsM |-> EmptyPaths,
             err |-> NoError]

\* StartList, were the position in Configuration.Repositories kept by the
\* client from call to call
StartList_ResumesRepos ==
    /\ pc = "idle"
    /\ op' = "list"
    /\ pc' = "repo"
    /\ repoIdx' = repoIdx
    /\ files' = <<>>
    /\ UNCHANGED <<Configuration, served, stack, qlog, ret, changesVars>>

\* GetFilePathsForRepositories is called
StartList ==
    /\ pc = "idle"
    /\ op' = "list"
    /\ pc' = "repo"
    /\ repoIdx' = 1
    /\ files' = <<>>
    /\ UNCHANGED <<Configuration, served, stack, qlog, ret, changesVars>>

\* the head of the loop over Configuration.Repositories: the next repository
\* is walked from the root expression
ListNextRepo ==
    /\ op = "list" /\ pc = "repo"
    /\ repoIdx <= Len(Configuration.Repositories)
    /\ stack' = <<NewFrame(RootExpression(Configuration))>>
    /\ pc' = "query"
    /\ UNCHANGED <<Configuration, served, op, repoIdx, files, qlog, ret, changesVars>>

\* the loop is over: the files are filtered by file type and returned
ListReturn ==
    /\ op = "list" /\ pc = "repo"
    /\ repoIdx > Len(Configuration.Repositories)
    /\ ret' = [NoResult EXCEPT
                 !.files = FilterFiles(files, Configuration.Filter.FileTypes)]
    /\ pc' = "done"
    /\ UNCHANGED <<Configuration, served, op, repoIdx, files, stack, qlog, changesVars>>

\* QueryFails, were GetFilePathsForRepositories to return the files gathered
\* so far with the error
QueryFails_Partial ==
    /\ op = "list" /\ pc = "query"
    /\ \E e \in Errors :
        /\ qlog' = Append(qlog, [repo |-> Configuration.Repositories[repoIdx],
                                 expression |-> stack[Len(stack)].expression,
                                 err |-> e, entries |-> <<>>])
        /\ ret' = [NoResult EXCEPT !.files = files, !.err = e]
    /\ stack' = <<>>
    /\ pc' = "done"
    /\ UNCHANGED <<Configuration, served, op, repoIdx, files, changesVars>>

\* the innermost getFilePathsForRepo issues its Query and the query fails:
\* every frame returns nil, err and so does GetFilePathsForRepositories
QueryFails ==
    /\ op = "list" /\ pc = "query"
    /\ \E e \in Errors :
        /\ qlog' = Append(qlog, [repo |-> Configuration.Repositories[repoIdx],
                                 expression |-> stack[Len(stack)].expression,
                                 err |-> e, entries |-> <<>>])
        /\ ret' = [NoResult EXCEPT !.files = <<>>, !.err = e]
    /\ stack' = <<>>
    /\ pc' = "done"
    /\ UNCHANGED <<Configuration, served, op, repoIdx, files, changesVars>>

\* QueryOk, were an answer without entries to be taken for a failure
QueryOk_EmptyIsError ==
    /\ op = "list" /\ pc = "query"
    /\ LET top == stack[Len(stack)]
       IN \E listing \in TreeListings(MaxTreeEntries - Served(qlog)) :
            LET entries == TreeEntries(top.expression, listing)
            IN /\ qlog' = Append(qlog,
                            [repo |-> Configuration.Repositories[repoIdx],
                             expression |-> top.expression,
                             err |-> NoError, entries |-> entries])
               /\ IF entries = <<>>
                  THEN /\ stack' = <<>>
                       /\ ret' = [NoResult EXCEPT !.err = "E1"]
                       /\ pc' = "done"
                  ELSE /\ stack' = [stack EXCEPT ![Len(stack)].entries = entries]
                       /\ ret' = ret
                       /\ pc' = "entries"
    /\ UNCHANGED <<Configuration, served, op, repoIdx, files, changesVars>>

\* the innermost getFilePathsForRepo issues its Query and gets the entries
QueryOk ==
    /\ op = "list" /\ pc = "query"
    /\ LET top == stack[Len(stack)]
       IN \E listing \in TreeListings(MaxTreeEntries - Served(qlog)) :
            LET entries == TreeEntries(top.expression, listing)
            IN /\ qlog' = Append(qlog,
                            [repo |-> Configuration.Repositories[repoIdx],
                             expression |-> top.expression,
                             err |-> NoError, entries |-> entries])
               /\ stack' = [stack EXCEPT ![Len(stack)].entries = entries]
    /\ pc' = "entries"
    /\ UNCHANGED <<Configuration, served, op, repoIdx, files, ret, changesVars>>

\* WalkEntry, were the loop not to move past an entry that is neither a blob
\* nor a tree
WalkEntry_StaysOnOther ==
    /\ op = "list" /\ pc = "entries"
    /\ stack[Len(stack)].entries # <<>>
    /\ LET top == stack[Len(stack)]
           entry == Head(top.entries)
           rest == [top EXCEPT !.entries = Tail(top.entries)]
       IN CASE entry.Type = "blob" ->
                 /\ stack' = [stack EXCEPT ![Len(stack)] =
                                [rest EXCEPT !.files = Append(top.files, entry.Path)]]
                 /\ pc' = "entries"
            [] entry.Type = "tree" ->
                 /\ stack' = Append([stack EXCEPT ![Len(stack)] = rest],
                                    NewFrame(SubExpression(top.expression, entry.Name)))
                 /\ pc' = "query"
            [] OTHER ->
                 /\ stack' = stack
                 /\ pc' = "entries"
    /\ UNCHANGED <<Configuration, served, op, repoIdx, files, qlog, ret, changesVars>>

\* one iteration of the loop over the entries: a blob's path is appended, a
\* tree is walked by a recursive call, anything else is skipped
WalkEntry ==
    /\ op = "list" /\ pc = "entries"
    /\ stack[Len(stack)].entries # <<>>
    /\ LET top == stack[Len(stack)]
           entry == Head(top.entries)
           rest == [top EXCEPT !.entries = Tail(top.entries)]
       IN CASE entry.Type = "blob" ->
                 /\ stack' = [stack EXCEPT ![Len(stack)] =
                                [rest EXCEPT !.files = Append(top.files, entry.Path)]]
                 /\ pc' = "entries"
            [] entry.Type = "tree" ->
                 /\ stack' = Append([stack EXCEPT ![Len(stack)] = rest],
                                    NewFrame(SubExpression(top.expression, entry.Name)))
                 /\ pc' = "query"
            [] OTHER ->
                 /\ stack' = [stack EXCEPT ![Len(stack)] = rest]
                 /\ pc' = "entries"
    /\ UNCHANGED <<Configuration, served, op, repoIdx, files, qlog, ret, changesVars>>

\* WalkReturnSub, were the caller to drop subFiles
WalkReturnSub_Drop ==
    /\ op = "list" /\ pc = "entries"
    /\ stack[Len(stack)].entries = <<>>
    /\ Len(stack) > 1
    /\ stack' = SubSeq(stack, 1, Len(stack) - 1)
    /\ UNCHANGED <<Configuration, served, op, pc, repoIdx, files, qlog, ret, changesVars>>

\* WalkReturnSub, were the caller to put subFiles before its own files
WalkReturnSub_Prepend ==
    /\ op = "list" /\ pc = "entries"
    /\ stack[Len(stack)].entries = <<>>
    /\ Len(stack) > 1
    /\ LET subFiles == stack[Len(stack)].files
           caller == Len(stack) - 1
       IN stack' = [SubSeq(stack, 1, caller) EXCEPT
                       ![caller].files = subFiles \o stack[caller].files]
    /\ UNCHANGED <<Configuration, served, op, pc, repoIdx, files, qlog, ret, changesVars>>

\* the entries are exhausted: a recursive call returns its files to its
\* caller, which appends them to its own
WalkReturnSub ==
    /\ op = "list" /\ pc = "entries"
    /\ stack[Len(stack)].entries = <<>>
    /\ Len(stack) > 1
    /\ LET subFiles == stack[Len(stack)].files
           caller == Len(stack) - 1
       IN stack' = [SubSeq(stack, 1, caller) EXCEPT
                       ![caller].files = stack[caller].files \o subFiles]
    /\ UNCHANGED <<Configuration, served, op, pc, repoIdx, files, qlog, ret, changesVars>>

\* the outermost getFilePathsForRepo returns: files = append(files, fs...)
WalkReturnRepo ==
    /\ op = "list" /\ pc = "entries"
    /\ stack[Len(stack)].entries = <<>>
    /\ Len(stack) = 1
    /\ files' = files \o stack[1].files
    /\ stack' = <<>>
    /\ repoIdx' = repoIdx + 1
    /\ pc' = "repo"
    /\ UNCHANGED <<Configuration, served, op, qlog, ret, changesVars>>

-----------------------------------------------------------------------------
(* The commit-history capability (ListCommits, GetCommit) *)

\* filenames a commit detail can name: "d/a", "d/b", "x/a"
FileNames == {<<"d", "/", "a">>, <<"d", "/", "b">>, <<"x", "/", "a">>}

\* the statuses GitHub reports for a file of a commit, and "": GetStatus()
\* of a file without a status
Statuses == {"removed", "added", "modified", "changed", "renamed", "copied",
             "unchanged", ""}

\* github.CommitFile values: a previous filename comes with "renamed" only
\* (GetPreviousFilename() is "" otherwise)
CommitFiles ==
    {f \in [Filename : FileNames, PreviousFilename : FileNames \cup {<<>>},
            Status : Statuses] :
        IF f.Status = "renamed"
        THEN f.PreviousFilename \in FileNames \ {f.Filename}
        ELSE f.PreviousFilename = <<>>}

\* the paths a file of a commit names
Named(f) == {f.Filename, f.PreviousFilename} \ {<<>>}

\* the Files of a commit detail with at most n files: a commit gives a path
\* one status, so that no two files name the same path
CommitDetails(n) ==
    {s \in UNION {[1..k -> CommitFiles] : k \in 0..n} :
        \A i, j \in DOMAIN s : i # j => Named(s[i]) \cap Named(s[j]) = {}}

RECURSIVE Listed(_)
\* the commits the ListCommits calls of a log have returned so far
Listed(log) ==
    IF log = <<>> THEN 0
    ELSE (IF Head(log).call = "ListCommits" THEN Head(log).n ELSE 0)
         + Listed(Tail(log))

-----------------------------------------------------------------------------
(* getChangedFilePathsForRepo, src/github.go: the switch on file.GetStatus() *)

\* ClassifyFile without the strings.HasPrefix test
ClassifyFile_NoPrefixTest(p, file, directory) ==
    CASE file.Status = "removed" ->
            [p EXCEPT !.Removed = Append(p.Removed, file.Filename)]
       [] file.Status = "added" ->
            [p EXCEPT !.Added = Append(p.Added, file.Filename)]
       [] file.Status \in {"modified", "changed"} ->
            [p EXCEPT !.Modified = Append(p.Modified, file.Filename)]
       [] file.Status = "renamed" ->
            [p EXCEPT !.Removed = Append(p.Removed, file.PreviousFilename),
                      !.Added = Append(p.Added, file.Filename)]
       [] file.Status = "copied" ->
            [p EXCEPT !.Added = Append(p.Added, file.Filename)]
       [] OTHER -> p

\* ClassifyFile, were "renamed" to append file.GetFilename() to Removed too
ClassifyFile_RenamedNewName(p, file, directory) ==
    IF ~HasPrefix(file.Filename, directory) THEN p
    ELSE CASE file.Status = "removed" ->
                [p EXCEPT !.Removed = Append(p.Removed, file.Filename)]
           [] file.Status = "added" ->
                [p EXCEPT !.Added = Append(p.Added, file.Filename)]
           [] file.Status \in {"modified", "changed"} ->
                [p EXCEPT !.Modified = Append(p.Modified, file.Filename)]
           [] file.Status = "renamed" ->
                [p EXCEPT !.Removed = Append(p.Removed, file.Filename),
                          !.Added = Append(p.Added, file.Filename)]
           [] file.Status = "copied" ->
                [p EXCEPT !.Added = Append(p.Added, file.Filename)]
           [] OTHER -> p

\* ClassifyFile, were a path to be appended only to a list that lacks it
ClassifyFile_Dedup(p, file, directory) ==
    LET add(l, x) == IF \E i \in DOMAIN l : l[i] = x THEN l ELSE Append(l, x)
    IN IF ~HasPrefix(file.Filename, directory) THEN p
       ELSE CASE file.Status = "removed" ->
                   [p EXCEPT !.Removed = add(p.Removed, file.Filename)]
              [] file.Status = "added" ->
                   [p EXCEPT !.Added = add(p.Added, file.Filename)]
              [] file.Status \in {"modified", "changed"} ->
                   [p EXCEPT !.Modified = add(p.Modified, file.Filename)]
              [] file.Status = "renamed" ->
                   [p EXCEPT !.Removed = add(p.Removed, file.PreviousFilename),
                             !.Added = add(p.Added, file.Filename)]
              [] file.Status = "copied" ->
                   [p EXCEPT !.Added = add(p.Added, file.Filename)]
              [] OTHER -> p

\* ClassifyFile, were a status the switch does not name to count as a change
ClassifyFile_OtherIsModified(p, file, directory) ==
    IF ~HasPrefix(file.Filename, directory) THEN p
    ELSE CASE file.Status = "removed" ->
                [p EXCEPT !.Removed = Append(p.Removed, file.Filename)]
           [] file.Status = "added" ->
                [p EXCEPT !.Added = Append(p.Added, file.Filename)]
           [] file.Status \in {"modified", "changed"} ->
                [p EXCEPT !.Modified = Append(p.Modified, file.Filename)]
           [] file.Status = "renamed" ->
                [p EXCEPT !.Removed = Append(p.Removed, file.PreviousFilename),
                          !.Added = Append(p.Added, file.Filename)]
           [] file.Status = "copied" ->
                [p EXCEPT !.Added = Append(p.Added, file.Filename)]
           [] OTHER ->
                [p EXCEPT !.Modified = Append(p.Modified, file.Filename)]

\* ClassifyFile, were the files to pass hasFileType as the listed files do
ClassifyFile_FileTypes(p, file, directory) ==
    IF ~HasPrefix(file.Filename, directory) THEN p
    ELSE IF /\ Len(Configuration.Filter.FileTypes) # 0
            /\ ~hasFileType(file.Filename, Configuration.Filter.FileTypes)
    THEN p
    ELSE CASE file.Status = "removed" ->
                [p EXCEPT !.Removed = Append(p.Removed, file.Filename)]
           [] file.Status = "added" ->
                [p EXCEPT !.Added = Append(p.Added, file.Filename)]
           [] file.Status \in {"modified", "changed"} ->
                [p EXCEPT !.Modified = Append(p.Modified, file.Filename)]
           [] file.Status = "renamed" ->
                [p EXCEPT !.Removed = Append(p.Removed, file.PreviousFilename),
                          !.Added = Append(p.Added, file.Filename)]
           [] file.Status = "copied" ->
                [p EXCEPT !.Added = Append(p.Added, file.Filename)]
           [] OTHER -> p

\* the switch on file.GetStatus() behind the strings.HasPrefix test
ClassifyFile(p, file, directory) ==
    IF ~HasPrefix(file.Filename, directory) THEN p
    ELSE CASE file.Status = "removed" ->
                [p EXCEPT !.Removed = Append(p.Removed, file.Filename)]
           [] file.Status = "added" ->
                [p EXCEPT !.Added = Append(p.Added, file.Filename)]
           [] file.Status \in {"modified", "changed"} ->
                [p EXCEPT !.Modified = Append(p.Modified, file.Filename)]
           [] file.Status = "renamed" ->
                [p EXCEPT !.Removed = Append(p.Removed, file.PreviousFilename),
                          !.Added = Append(p.Added, file.Filename)]
           [] file.Status = "copied" ->
                [p EXCEPT !.Added = Append(p.Added, file.Filename)]
           [] OTHER -> p

-----------------------------------------------------------------------------
(* getChangedFilePathsForRepo of the merged-interface client: its slices    *)
(* are Go slices, [arr, len] over a backing array of heapM (arr = 0: nil),  *)
(* because append(paths.Modified, x) assigned to paths.Added can leave two  *)
(* slices on one array.                                                     *)

ArrayIds == 1..4

NilSlice == [arr |-> 0, len |-> 0]

NilPaths == [Added |-> NilSlice, Removed |-> NilSlice, Modified |-> NilSlice]

EmptyHeap == [a \in ArrayIds |-> <<>>]

\* cap(s)
Cap(heap, s) == IF s.arr = 0 THEN 0 ELSE Len(heap[s.arr])

\* the elements of slice s
Elems(heap, s) == IF s.arr = 0 THEN <<>> ELSE SubSeq(heap[s.arr], 1, s.len)

\* the elements of the three slices
PathsValue(heap, p) ==
    [Added |-> Elems(heap, p.Added), Removed |-> Elems(heap, p.Removed),
     Modified |-> Elems(heap, p.Modified)]

\* the capacity append gives a []string that is full: 1, 2, 4, 8, ...
GrowCap(old) == IF old = 0 THEN 1 ELSE 2 * old

\* arrays no slice of p is on are freed
Collect(heap, p) ==
    [a \in ArrayIds |->
        IF a \in {p.Added.arr, p.Removed.arr, p.Modified.arr} THEN heap[a]
        ELSE <<>>]

\* p.dst = append(p.src, x): in place when src has room, else into a new array
GoAppend(st, dst, src, x) ==
    LET s == st.p[src]
        heap == st.heap
    IN IF s.len < Cap(heap, s)
       THEN LET p2 == [st.p EXCEPT ![dst] = [arr |-> s.arr, len |-> s.len + 1]]
            IN [heap |-> Collect([heap EXCEPT ![s.arr][s.len + 1] = x], p2),
                p |-> p2]
       ELSE LET a == CHOOSE i \in ArrayIds :
                        /\ heap[i] = <<>>
                        /\ \A j \in ArrayIds : heap[j] = <<>> => i <= j
                new == [i \in 1..GrowCap(Cap(heap, s)) |->
                            IF i <= s.len THEN heap[s.arr][i]
                            ELSE IF i = s.len + 1 THEN x ELSE <<>>]
                p2 == [st.p EXCEPT ![dst] = [arr |-> a, len |-> s.len + 1]]
            IN [heap |-> Collect([heap EXCEPT ![a] = new], p2), p |-> p2]

\* the switch on file.GetStatus() of the merged-interface client
ClassifyFileM(st, file, directory) ==
    IF ~HasPrefix(file.Filename, directory) THEN st
    ELSE CASE file.Status = "removed" ->
                GoAppend(st, "Removed", "Removed", file.Filename)
           [] file.Status = "added" ->
                GoAppend(st, "Added", "Added", file.Filename)
           [] file.Status \in {"modified", "changed"} ->
                GoAppend(st, "Modified", "Modified", file.Filename)
           [] file.Status = "renamed" ->
                GoAppend(GoAppend(st, "Removed", "Removed", file.PreviousFilename),
                         "Added", "Modified", file.Filename)
           [] file.Status = "copied" ->
                GoAppend(st, "Added", "Modified", file.Filename)
           [] OTHER -> st

-----------------------------------------------------------------------------
(* GetChangedFilePathsSince *)

\* time.Now() values, in hours
Nows == {1000}

\* hoursSince values a caller passes
HoursSince == {0, 1}

\* now.Add(time.Hour * time.Duration(-dayToHour)) with dayToHour = 24 * hoursSince,
\* in hours
SpecifiedTime(now, hoursSince) == now - 24 * hoursSince

\* paths.X = append(paths.X, commitPaths.X...) for the three lists
Aggregate(p, commitPaths) ==
    [Added |-> p.Added \o commitPaths.Added,
     Removed |-> p.Removed \o commitPaths.Removed,
     Modified |-> p.Modified \o commitPaths.Modified]

Lengths(p) ==
    [Added |-> Len(p.Added), Removed |-> Len(p.Removed),
     Modified |-> Len(p.Modified)]

\* GetChangedFilePathsSince(hoursSince) is called
StartChanges ==
    /\ pc = "idle"
    /\ \E hoursSince \in HoursSince, now \in Nows :
        /\ call' = [hoursSince |-> hoursSince, now |-> now]
        /\ opt' = [Since |-> SpecifiedTime(now, hoursSince),
                   Path |-> Configuration.Filter.FilePath,
                   PerPage |-> 100]
    /\ op' = "changes"
    /\ pc' = "repo"
    /\ repoIdx' = 1
    /\ paths' = EmptyPaths
    /\ pathsM' = EmptyPaths
    /\ UNCHANGED <<Configuration, served, listVars, repoPaths, commits, detail,
                   mark, repoPathsM, heapM, clog, detailed, ret>>

\* the loop over the repositories is over: paths, nil
ChangesReturn ==
    /\ op = "changes" /\ pc = "repo"
    /\ repoIdx > Len(Configuration.Repositories)
    /\ ret' = [NoResult EXCEPT !.paths = paths, !.pathsM = pathsM]
    /\ pc' = "done"
    /\ UNCHANGED <<Configuration, served, listVars, op, repoIdx, call, opt, paths,
                   repoPaths, commits, detail, mark, pathsM,
                   repoPathsM, heapM, clog, detailed>>

\* ChangesFail, were GetChangedFilePathsSince to return its paths with the error
ChangesFail_Partial(e) ==
    /\ ret' = [NoResult EXCEPT !.paths = paths, !.pathsM = pathsM, !.err = e]
    /\ repoPaths' = EmptyPaths
    /\ repoPathsM' = NilPaths
    /\ heapM' = EmptyHeap
    /\ commits' = <<>>
    /\ detail' = <<>>
    /\ mark' = Lengths(EmptyPaths)
    /\ pc' = "done"

\* what a failing capability call leaves: getChangedFilePathsForRepo returns
\* paths, err and GetChangedFilePathsSince returns Paths{}, err
ChangesFail(e) ==
    /\ ret' = [NoResult EXCEPT !.paths = EmptyPaths, !.pathsM = EmptyPaths,
                               !.err = e]
    /\ repoPaths' = EmptyPaths
    /\ repoPathsM' = NilPaths
    /\ heapM' = EmptyHeap
    /\ commits' = <<>>
    /\ detail' = <<>>
    /\ mark' = Lengths(EmptyPaths)
    /\ pc' = "done"

\* getChangedFilePathsForRepo is called for the next repository and its
\* ListCommits fails
ListCommitsFails ==
    /\ op = "changes" /\ pc = "repo"
    /\ repoIdx <= Len(Configuration.Repositories)
    /\ \E e \in Errors :
        /\ clog' = Append(clog, [call |-> "ListCommits",
                                 repo |-> Configuration.Repositories[repoIdx],
                                 arg |-> opt, err |-> e, n |-> 0])
        /\ ChangesFail(e)
    /\ UNCHANGED <<Configuration, served, listVars, op, repoIdx, call, opt, paths, pathsM,
                   detailed>>

\* getChangedFilePathsForRepo is called for the next repository and its
\* ListCommits returns the commits of the window
ListCommitsOk ==
    /\ op = "changes" /\ pc = "repo"
    /\ repoIdx <= Len(Configuration.Repositories)
    /\ \E n \in 0..(MaxCommits - Listed(clog)) :
        /\ commits' = [i \in 1..n |-> Listed(clog) + i]
        /\ clog' = Append(clog, [call |-> "ListCommits",
                                 repo |-> Configuration.Repositories[repoIdx],
                                 arg |-> opt, err |-> NoError, n |-> n])
    /\ repoPaths' = EmptyPaths
    /\ repoPathsM' = NilPaths
    /\ heapM' = EmptyHeap
    /\ pc' = "commit"
    /\ UNCHANGED <<Configuration, served, listVars, op, repoIdx, call, opt, paths,
                   detail, mark, pathsM, detailed, ret>>


\* GetCommitFails, were the loop over the commits to go on to the next commit
GetCommitFails_Skip ==
    /\ op = "changes" /\ pc = "commit"
    /\ commits # <<>>
    /\ \E e \in Errors :
        clog' = Append(clog, [call |-> "GetCommit",
                              repo |-> Configuration.Repositories[repoIdx],
                              arg |-> Head(commits), err |-> e, n |-> 0])
    /\ commits' = Tail(commits)
    /\ UNCHANGED <<Configuration, served, listVars, op, pc, repoIdx, call, opt, paths,
                   repoPaths, detail, mark, pathsM, repoPathsM, heapM,
                   detailed, ret>>

\* GetCommit for the next commit fails
GetCommitFails ==
    /\ op = "changes" /\ pc = "commit"
    /\ commits # <<>>
    /\ \E e \in Errors :
        /\ clog' = Append(clog, [call |-> "GetCommit",
                                 repo |-> Configuration.Repositories[repoIdx],
                                 arg |-> Head(commits), err |-> e, n |-> 0])
        /\ ChangesFail(e)
    /\ UNCHANGED <<Configuration, served, listVars, op, repoIdx, call, opt, paths, pathsM,
                   detailed>>

\* GetCommit for the next commit returns its detail
GetCommitOk ==
    /\ op = "changes" /\ pc = "commit"
    /\ commits # <<>>
    /\ \E fs \in CommitDetails(MaxFiles - detailed) :
        /\ detail' = fs
        /\ detailed' = detailed + Len(fs)
    /\ clog' = Append(clog, [call |-> "GetCommit",
                             repo |-> Configuration.Repositories[repoIdx],
                             arg |-> Head(commits), err |-> NoError, n |-> 0])
    /\ commits' = Tail(commits)
    /\ mark' = Lengths(repoPaths)
    /\ pc' = "file"
    /\ UNCHANGED <<Configuration, served, listVars, op, repoIdx, call, opt, paths,
                   repoPaths, pathsM, repoPathsM, heapM, ret>>

\* one iteration of the loop over commitDetails.Files, in both clients
ClassifyStep ==
    /\ op = "changes" /\ pc = "file"
    /\ detail # <<>>
    /\ repoPaths' = ClassifyFile(repoPaths, Head(detail),
                                 Configuration.Filter.FilePath)
    /\ LET st == ClassifyFileM([heap |-> heapM, p |-> repoPathsM],
                               Head(detail), Configuration.Filter.FilePath)
       IN /\ heapM' = st.heap
          /\ repoPathsM' = st.p
    /\ detail' = Tail(detail)
    /\ UNCHANGED <<Configuration, served, listVars, op, pc, repoIdx, call, opt, paths,
                   commits, mark, pathsM, clog, detailed, ret>>

\* the files of the commit are exhausted: on to the next commit
CommitDone ==
    /\ op = "changes" /\ pc = "file"
    /\ detail = <<>>
    /\ mark' = Lengths(EmptyPaths)
    /\ pc' = "commit"
    /\ UNCHANGED <<Configuration, served, listVars, op, repoIdx, call, opt, paths,
                   repoPaths, commits, detail, pathsM, repoPathsM, heapM, clog,
                   detailed, ret>>

\* the commits are exhausted: getChangedFilePathsForRepo returns paths, nil
\* and GetChangedFilePathsSince appends its three lists to its own
RepoReturn ==
    /\ op = "changes" /\ pc = "commit"
    /\ commits = <<>>
    /\ paths' = Aggregate(paths, repoPaths)
    /\ pathsM' = Aggregate(pathsM, PathsValue(heapM, repoPathsM))
    /\ repoPaths' = EmptyPaths
    /\ repoPathsM' = NilPaths
    /\ heapM' = EmptyHeap
    /\ repoIdx' = repoIdx + 1
    /\ pc' = "repo"
    /\ UNCHANGED <<Configuration, served, listVars, op, call, opt, commits, detail,
                   mark, clog, detailed, ret>>

-----------------------------------------------------------------------------
(* Specifications *)

vars == <<Configuration, op, pc, repoIdx, files, stack, qlog, call, opt, paths,
          repoPaths, commits, detail, mark, pathsM, repoPathsM, heapM,
          clog, detailed, ret, served>>

InitWith(filters) ==
    /\ Configuration \in Configs(filters)
    /\ op = "none"
    /\ pc = "idle"
    /\ repoIdx = 1
    /\ files = <<>>
    /\ stack = <<>>
    /\ qlog = <<>>
    /\ call = [hoursSince |-> 0, now |-> 0]
    /\ opt = [Since |-> 0, Path |-> <<>>, PerPage |-> 0]
    /\ paths = EmptyPaths
    /\ repoPaths = EmptyPaths
    /\ commits = <<>>
    /\ detail = <<>>
    /\ mark = Lengths(EmptyPaths)
    /\ pathsM = EmptyPaths
    /\ repoPathsM = NilPaths
    /\ heapM = EmptyHeap
    /\ clog = <<>>
    /\ detailed = 0
    /\ ret = NoResult
    /\ served = FALSE

NextList ==
    \/ StartList
    \/ ListNextRepo
    \/ ListReturn
    \/ QueryFails
    \/ QueryOk
    \/ WalkEntry
    \/ WalkReturnSub
    \/ WalkReturnRepo

NextChanges ==
    \/ StartChanges
    \/ ChangesReturn
    \/ ListCommitsFails
    \/ ListCommitsOk
    \/ GetCommitFails
    \/ GetCommitOk
    \/ ClassifyStep
    \/ CommitDone
    \/ RepoReturn

Next == NextList \/ NextChanges

InitList == InitWith(ListFilters)

InitChanges == InitWith(ChangesFilters)

Init == InitWith(ListFilters \cup ChangesFilters)

\* the client serving one GetFilePathsForRepositories call
SpecList == InitList /\ [][NextList]_vars

\* the same, every Query returning and the sequential code taking its next
\* step as long as it has one
SpecListFair == SpecList /\ WF_vars(NextList)

\* the split-interface client (src/github.go) and the merged-interface client
\* serving one GetChangedFilePathsSince call on the same answers
SpecChanges == InitChanges /\ [][NextChanges]_vars

\* the client serving one call of either operation
Spec == Init /\ [][Next]_vars

\* the top-level call has returned to its caller (return files, nil;
\* return paths, nil; return nil, err; return Paths{}, err): its locals are
\* gone, and the next call is answered by the capabilities anew
NextCall ==
    /\ pc = "done"
    /\ pc' = "idle"
    /\ files' = <<>>
    /\ paths' = EmptyPaths
    /\ pathsM' = EmptyPaths
    /\ call' = [hoursSince |-> 0, now |-> 0]
    /\ opt' = [Since |-> 0, Path |-> <<>>, PerPage |-> 0]
    /\ ret' = NoResult
    /\ qlog' = <<>>
    /\ clog' = <<>>
    /\ detailed' = 0
    /\ served' = TRUE
    /\ UNCHANGED <<Configuration, op, repoIdx, stack, repoPaths, commits, detail,
                   mark, repoPathsM, heapM>>

NextCalls == Next \/ NextCall

InitCalls == InitWith(ListFilters \cap ChangesFilters)

\* the client serving any number of calls of either operation, one after
\* the other
SpecCalls == InitCalls /\ [][NextCalls]_vars


-----------------------------------------------------------------------------
(* Shorthands of the properties *)

\* the last element of a non-empty sequence
Last(s) == s[Len(s)]

\* the configured path prefix
directory == Configuration.Filter.FilePath

\* the loop over commitDetails.Files is about to read a file
Classifying == op = "changes" /\ pc = "file" /\ detail # <<>>

\* the lists of the merged-interface client's getChangedFilePathsForRepo
repoValueM == PathsValue(heapM, repoPathsM)

\* the same, after the step
repoValueM_next == PathsValue(heapM', repoPathsM')

-----------------------------------------------------------------------------
(* C1 *)

\* C1: classifying a file under the path prefix whose status is "renamed"
\* appends its previous filename to Removed and its filename to Added,
\* whatever the lists hold already, in the classifier of src/github.go and in
\* the classifier of the merged-interface client.
C1_RenamedAppends ==
    [][(Classifying /\ Head(detail).Status = "renamed"
            /\ HasPrefix(Head(detail).Filename, directory))
        => /\ repoPaths'.Removed
                = Append(repoPaths.Removed, Head(detail).PreviousFilename)
           /\ repoPaths'.Added = Append(repoPaths.Added, Head(detail).Filename)
           /\ repoValueM_next.Removed
                = Append(repoValueM.Removed, Head(detail).PreviousFilename)
           /\ repoValueM_next.Added
                = Append(repoValueM.Added, Head(detail).Filename)]_vars

-----------------------------------------------------------------------------
(* C2 *)

\* C2: once a tree query has failed, GetFilePathsForRepositories has returned
\* that query's error and no path at all, whatever the repositories walked
\* before had yielded.
C2_ListFailFast ==
    \A i \in DOMAIN qlog :
        qlog[i].err # NoError
            => /\ pc = "done"
               /\ ret.err = qlog[i].err
               /\ ret.files = <<>>

\* C2 witness: a query of a sub-directory failed after an earlier repository
\* had yielded paths
C2_Witness ==
    /\ op = "list" /\ pc = "done"
    /\ ret.err \in Errors
    /\ files # <<>>
    /\ repoIdx > 1
    /\ Len(Last(qlog).expression) > Len(RootExpression(Configuration))

-----------------------------------------------------------------------------
(* C3 *)

\* the Query answers of a log that belong to repository r
QueriesOf(log, r) == SelectSeq(log, LAMBDA q : q.repo = r)

RECURSIVE BlobPaths(_)
\* the paths of the blob entries of a sequence of entries, in order
BlobPaths(entries) ==
    IF entries = <<>> THEN <<>>
    ELSE (IF Head(entries).Type = "blob" THEN <<Head(entries).Path>> ELSE <<>>)
         \o BlobPaths(Tail(entries))

RECURSIVE AllBlobPaths(_)
\* the paths of the blob entries of all the answers of a log
AllBlobPaths(log) ==
    IF log = <<>> THEN <<>>
    ELSE BlobPaths(Head(log).entries) \o AllBlobPaths(Tail(log))

\* how often x occurs in sequence s
Count(x, s) == Cardinality({i \in DOMAIN s : s[i] = x})

\* every directory an answer of the log lists has been queried itself
AllTreesQueried(log) ==
    \A i \in DOMAIN log : \A k \in DOMAIN log[i].entries :
        log[i].entries[k].Type = "tree"
            => \E j \in DOMAIN log :
                log[j].expression
                    = log[i].expression \o <<"/">> \o log[i].entries[k].Name

\* the outermost getFilePathsForRepo is about to return its files
WalkerReturns ==
    /\ op = "list" /\ pc = "entries"
    /\ Len(stack) = 1
    /\ stack[1].entries = <<>>

\* C3: when the walk of a repository returns, every directory reachable from
\* the root expression has been queried, the result holds as many paths as the
\* tree holds blob entries, and each blob's path occurs in it exactly once.
C3_WalkerReturnsEveryBlob ==
    WalkerReturns =>
        LET tree == QueriesOf(qlog, Configuration.Repositories[repoIdx])
            blobs == AllBlobPaths(tree)
        IN /\ AllTreesQueried(tree)
           /\ Len(stack[1].files) = Len(blobs)
           /\ \A i \in DOMAIN blobs : Count(blobs[i], stack[1].files) = 1

\* C3 witness: a walk returns the path of a blob two directories below the
\* root expression
C3_Witness ==
    /\ WalkerReturns
    /\ stack[1].files # <<>>
    /\ \E i \in DOMAIN qlog :
        /\ Len(qlog[i].expression) >= Len(RootExpression(Configuration)) + 4
        /\ BlobPaths(qlog[i].entries) # <<>>

-----------------------------------------------------------------------------
(* C4 *)

\* C4: every ListCommits call is passed Since = now - hoursSince hours.
C4_SinceIsHoursAgo ==
    \A i \in DOMAIN clog :
        clog[i].call = "ListCommits"
            => clog[i].arg.Since = call.now - call.hoursSince


-----------------------------------------------------------------------------
(* C5 *)

\* the elements of a sequence
Range(s) == {s[i] : i \in DOMAIN s}

\* no path is in two of the three lists
Disjoint(p) ==
    /\ Range(p.Added) \cap Range(p.Removed) = {}
    /\ Range(p.Added) \cap Range(p.Modified) = {}
    /\ Range(p.Removed) \cap Range(p.Modified) = {}

\* what has been appended to the lists of p since they had the lengths m
Since(p, m) ==
    [Added |-> SubSeq(p.Added, m.Added + 1, Len(p.Added)),
     Removed |-> SubSeq(p.Removed, m.Removed + 1, Len(p.Removed)),
     Modified |-> SubSeq(p.Modified, m.Modified + 1, Len(p.Modified))]

\* getChangedFilePathsForRepo of src/github.go is about to return paths, nil
ClassifierReturns == op = "changes" /\ pc = "commit" /\ commits = <<>>

\* C5 as claimed: the Paths the classifier of src/github.go returns for a
\* repository holds no path in two of its lists.
C5_ListsDisjoint == ClassifierReturns => Disjoint(repoPaths)

\* C5 as amended: what the files of one commit add to the lists of the
\* classifier of src/github.go holds no path in two of the lists.
C5_CommitContributionDisjoint ==
    (op = "changes" /\ pc = "file") => Disjoint(Since(repoPaths, mark))

\* C5 witness: a commit's files have all been classified; the commit renamed
\* a file, adding to two lists, after an earlier commit had added to the lists
C5_Witness ==
    /\ op = "changes" /\ pc = "file" /\ detail = <<>>
    /\ mark.Added + mark.Removed + mark.Modified > 0
    /\ Since(repoPaths, mark).Added # <<>>
    /\ Since(repoPaths, mark).Removed # <<>>

-----------------------------------------------------------------------------
(* C6 *)

\* C6: classifying a file whose filename does not start with the path prefix
\* leaves Added, Removed and Modified as they are, whatever its status, in
\* both clients.
C6_OutsidePrefixIgnored ==
    [][(Classifying /\ ~HasPrefix(Head(detail).Filename, directory))
        => /\ repoPaths' = repoPaths
           /\ repoValueM_next = repoValueM]_vars

\* C6 witness: a renamed file outside the path prefix is about to be
\* classified, its previous filename under the prefix, the lists not empty
C6_Witness ==
    /\ Classifying
    /\ ~HasPrefix(Head(detail).Filename, directory)
    /\ HasPrefix(Head(detail).PreviousFilename, directory)
    /\ Head(detail).Status = "renamed"
    /\ repoPaths # EmptyPaths

-----------------------------------------------------------------------------
(* C7 *)

\* every path of the three lists starts with the path prefix
AllUnder(p, prefix) ==
    \A l \in {p.Added, p.Removed, p.Modified} :
        \A i \in DOMAIN l : HasPrefix(l[i], prefix)

\* C7: every path GetChangedFilePathsSince of src/github.go returns starts
\* with Filter.FilePath.
C7_ReturnedPathsUnderFilter ==
    (op = "changes" /\ pc = "done") => AllUnder(ret.paths, directory)

-----------------------------------------------------------------------------
(* C8 *)

\* C8: classifying a file under the path prefix whose status is "copied"
\* appends its filename to Added and leaves Removed and Modified as they are,
\* in the classifier of src/github.go and in the classifier of the
\* merged-interface client.
C8_CopiedAppends ==
    [][(Classifying /\ Head(detail).Status = "copied"
            /\ HasPrefix(Head(detail).Filename, directory))
        => /\ repoPaths' = [repoPaths EXCEPT
                              !.Added = Append(repoPaths.Added, Head(detail).Filename)]
           /\ repoValueM_next = [repoValueM EXCEPT
                              !.Added = Append(repoValueM.Added, Head(detail).Filename)]
      ]_vars

-----------------------------------------------------------------------------
(* C9 *)

\* path p ends with the symbols of t
EndsWith(p, t) == \E k \in 0..Len(p) : t = [i \in 1..(Len(p) - k) |-> p[k + i]]

RECURSIVE Kept(_, _)
\* the paths of fs that end with one of the suffixes, in the order of fs
Kept(fs, suffixes) ==
    IF fs = <<>> THEN <<>>
    ELSE (IF \E t \in Range(suffixes) : EndsWith(Head(fs), t)
          THEN <<Head(fs)>> ELSE <<>>)
         \o Kept(Tail(fs), suffixes)

\* C9: what GetFilePathsForRepositories returns without error is the walker's
\* output itself when Filter.FileTypes is empty, and else its paths that end
\* with one of the configured suffixes, in the walker's order.
C9_PathFilter ==
    (op = "list" /\ pc = "done" /\ ret.err = NoError)
        => ret.files = IF Configuration.Filter.FileTypes = <<>> THEN files
                       ELSE Kept(files, Configuration.Filter.FileTypes)

\* C9 witness: [d/a.md, d/b.txt] filtered with [.md] has given [d/a.md]
C9_Witness ==
    /\ op = "list" /\ pc = "done" /\ ret.err = NoError
    /\ Configuration.Filter.FileTypes = << <<".md">> >>
    /\ files = << <<"d", "/", "a", ".md">>, <<"d", "/", "b", ".txt">> >>
    /\ ret.files = << <<"d", "/", "a", ".md">> >>

-----------------------------------------------------------------------------
(* C10 *)

\* C10: once a ListCommits or a GetCommit call has failed,
\* GetChangedFilePathsSince has returned that call's error and an empty Paths,
\* in both clients, whatever had been classified before.
C10_ChangesFailFast ==
    \A i \in DOMAIN clog :
        clog[i].err # NoError
            => /\ pc = "done"
               /\ ret.err = clog[i].err
               /\ ret.paths = EmptyPaths
               /\ ret.pathsM = EmptyPaths

\* C10 witness: GetCommit failed in the second repository after the first
\* repository's commits had been classified into paths
C10_Witness ==
    /\ op = "changes" /\ pc = "done"
    /\ ret.err \in Errors
    /\ Last(clog).call = "GetCommit"
    /\ repoIdx = 2
    /\ paths # EmptyPaths

-----------------------------------------------------------------------------
(* C11 *)

\* the Query answers so far are all successful and without entries
AllEmptyTrees == \A i \in DOMAIN qlog : qlog[i].err = NoError /\ qlog[i].entries = <<>>

\* C11: when the query of a repository's root expression has succeeded
\* without entries, the walker is about to return an empty list, no error
\* returned; and when GetFilePathsForRepositories has returned after walking
\* only empty trees, it has queried every repository once and returned an
\* empty list and no error.
C11_EmptyTreeEmptyList ==
    /\ (op = "list" /\ pc = "entries"
            /\ Last(qlog).expression = RootExpression(Configuration)
            /\ Last(qlog).entries = <<>>)
        => /\ WalkerReturns
           /\ stack[1].files = <<>>
           /\ ret.err = NoError
    /\ (op = "list" /\ pc = "done" /\ AllEmptyTrees)
        => /\ Len(qlog) = Len(Configuration.Repositories)
           /\ ret.files = <<>>
           /\ ret.err = NoError

\* C11 witness: GetFilePathsForRepositories has returned after the root
\* queries of two repositories succeeded without entries
C11_Witness ==
    /\ op = "list" /\ pc = "done"
    /\ Len(Configuration.Repositories) = 2
    /\ Len(qlog) = 2
    /\ AllEmptyTrees
    /\ ret.files = <<>>

-----------------------------------------------------------------------------
(* C12 *)

\* list new is list old, or list old with one element appended
ExtendsByAtMostOne(old, new) ==
    /\ Len(new) \in {Len(old), Len(old) + 1}
    /\ SubSeq(new, 1, Len(old)) = old

\* C12: classifying one file of one commit leaves each of Added, Removed and
\* Modified with its value before the step as a prefix, extended by at most
\* one element, in the classifier of src/github.go and in the classifier of
\* the merged-interface client.
C12_ClassifyExtends ==
    [][Classifying
        => \A l \in {"Added", "Removed", "Modified"} :
            /\ ExtendsByAtMostOne(repoPaths[l], repoPaths'[l])
            /\ ExtendsByAtMostOne(repoValueM[l], repoValueM_next[l])]_vars

-----------------------------------------------------------------------------
(* C13 *)

\* C13: run side by side on the same configuration and the same answers of
\* ListCommits and GetCommit, the split-interface client of src/github.go and
\* the merged-interface client have returned the same error and the same
\* Added, Removed and Modified from GetChangedFilePathsSince.
C13_VariantsEquivalent ==
    (op = "changes" /\ pc = "done") => ret.paths = ret.pathsM

-----------------------------------------------------------------------------
(* C14 *)

\* the entries the tree at expression holds according to the answers of a log
Listing(log, expression) ==
    IF \E i \in DOMAIN log : log[i].expression = expression
    THEN log[CHOOSE i \in DOMAIN log : log[i].expression = expression].entries
    ELSE <<>>

RECURSIVE PreOrder(_, _, _)
\* the depth-first pre-order walk of the entries of the tree at expression:
\* a blob gives its path, a directory gives the walk of its own entries at
\* its position, anything else gives nothing
PreOrder(log, expression, entries) ==
    IF entries = <<>> THEN <<>>
    ELSE LET entry == Head(entries)
             sub == expression \o <<"/">> \o entry.Name
         IN (CASE entry.Type = "blob" -> <<entry.Path>>
               [] entry.Type = "tree" -> PreOrder(log, sub, Listing(log, sub))
               [] OTHER -> <<>>)
            \o PreOrder(log, expression, Tail(entries))

RECURSIVE RepoWalks(_)
\* the pre-order walks of the first k configured repositories, concatenated
RepoWalks(k) ==
    IF k = 0 THEN <<>>
    ELSE LET tree == QueriesOf(qlog, Configuration.Repositories[k])
             root == RootExpression(Configuration)
         IN RepoWalks(k - 1) \o PreOrder(tree, root, Listing(tree, root))

\* C14: between the walks of two repositories, and when
\* GetFilePathsForRepositories has returned without error, the unfiltered
\* files are the depth-first pre-order walks of the repositories walked so
\* far, concatenated in configuration order.
C14_PreOrderConcatenation ==
    (op = "list" /\ pc \in {"repo", "done"} /\ ret.err = NoError)
        => files = RepoWalks(repoIdx - 1)

\* C14 witness: the call has returned the file of a sub-directory before the
\* file that follows the sub-directory in the root tree
C14_Witness ==
    /\ op = "list" /\ pc = "done" /\ ret.err = NoError
    /\ Len(files) = 2
    /\ Len(files[1]) > Len(files[2])
    /\ \E i \in DOMAIN qlog :
        /\ Len(qlog[i].entries) = 2
        /\ qlog[i].entries[1].Type = "tree"
        /\ qlog[i].entries[2].Type = "blob"
        /\ qlog[i].entries[2].Path = files[2]

-----------------------------------------------------------------------------
(* C15 *)

\* C15: within one top-level call of either operation, a Query, ListCommits
\* or GetCommit that returned an error is the last capability call issued.
C15_NoCallAfterError ==
    /\ \A i \in DOMAIN qlog : qlog[i].err # NoError => i = Len(qlog)
    /\ \A i \in DOMAIN clog : clog[i].err # NoError => i = Len(clog)

\* C15 witness: the first GetCommit of the first repository failed with a
\* second commit and a second repository still to come, and the call
\* returned
C15_Witness ==
    /\ op = "changes" /\ pc = "done"
    /\ Len(Configuration.Repositories) = 2
    /\ Len(clog) = 2
    /\ clog[1].n = 2
    /\ clog[2].call = "GetCommit" /\ clog[2].err \in Errors

-----------------------------------------------------------------------------
(* C16 *)

\* the names of the three lists
ListNames == {"Added", "Removed", "Modified"}

\* 1 when the file is under the prefix, names x and has the status the
\* list is called after, else 0
ReportsByName(file, l, x) ==
    IF /\ HasPrefix(file.Filename, directory)
       /\ file.Filename = x
       /\ file.Status = (CASE l = "Added" -> "added"
                            [] l = "Removed" -> "removed"
                            [] l = "Modified" -> "modified")
    THEN 1 ELSE 0

\* 1 when the file is under the prefix and its status reports x into list
\* l, else 0: "modified" and "changed" report the filename into Modified,
\* "added", "copied" and "renamed" the filename into Added, "removed" the
\* filename and "renamed" the previous filename into Removed
Reports(file, l, x) ==
    IF /\ HasPrefix(file.Filename, directory)
       /\ \/ l = "Modified" /\ file.Status \in {"modified", "changed"}
                /\ file.Filename = x
          \/ l = "Added" /\ file.Status \in {"added", "copied", "renamed"}
                /\ file.Filename = x
          \/ l = "Removed" /\ file.Status = "removed" /\ file.Filename = x
          \/ l = "Removed" /\ file.Status = "renamed"
                /\ file.PreviousFilename = x
    THEN 1 ELSE 0

\* C16 as claimed: classifying a file of a commit in src/github.go raises
\* the number of occurrences of a path in Modified (Added, Removed) by one
\* when the file is under the prefix, names the path and has the status
\* "modified" ("added", "removed"), and leaves it as it is otherwise.
C16_OncePerCommitOfThatStatus ==
    [][Classifying
        => \A l \in ListNames, x \in FileNames :
            Count(x, repoPaths'[l])
                = Count(x, repoPaths[l]) + ReportsByName(Head(detail), l, x)]_vars

\* C16 as amended: classifying a file of a commit in src/github.go raises
\* the number of occurrences of a path in a list by one when the file's
\* status reports the path into that list, leaves it as it is otherwise, and
\* keeps the earlier occurrences in front; a repository's lists are appended
\* behind those of the repositories before it; the call returns the lists
\* so gathered; no other step of the call touches them.
C16_OncePerReportingCommit ==
    [][(op = "changes" /\ op' = "changes")
        => CASE Classifying ->
                  /\ paths' = paths
                  /\ \A l \in ListNames :
                        /\ SubSeq(repoPaths'[l], 1, Len(repoPaths[l])) = repoPaths[l]
                        /\ \A x \in FileNames :
                              Count(x, repoPaths'[l])
                                = Count(x, repoPaths[l]) + Reports(Head(detail), l, x)
             [] pc = "commit" /\ pc' = "repo" ->
                  paths' = Aggregate(paths, repoPaths)
             [] pc' = "done" /\ ret'.err = NoError ->
                  ret'.paths = paths
             [] pc' = "done" /\ ret'.err # NoError ->
                  ret'.paths = EmptyPaths
             [] OTHER ->
                  paths' = paths /\ repoPaths' = repoPaths]_vars

\* C16 witness: two commits have reported one path under the prefix into
\* one list, and the call has returned the path twice in that list
C16_Witness ==
    /\ op = "changes" /\ pc = "done" /\ ret.err = NoError
    /\ \E l \in ListNames, x \in FileNames :
        /\ HasPrefix(x, directory)
        /\ ret.paths[l] = <<x, x>>
    /\ Listed(clog) = 2

-----------------------------------------------------------------------------
(* C17 *)

\* the statuses the switch names
NamedStatuses == {"removed", "added", "modified", "changed", "renamed", "copied"}

\* C17: classifying a file under the path prefix whose status is none of
\* "removed", "added", "modified", "changed", "renamed", "copied" (the empty
\* status included) leaves Added, Removed and Modified as they are, in both
\* clients, and the call goes on to the next file without an error.
C17_OtherStatusIgnored ==
    [][(Classifying /\ HasPrefix(Head(detail).Filename, directory)
            /\ Head(detail).Status \notin NamedStatuses)
        => /\ repoPaths' = repoPaths
           /\ repoValueM_next = repoValueM
           /\ paths' = paths
           /\ pc' = "file"
           /\ ret' = ret /\ ret.err = NoError]_vars

\* C17 witness: a file under the prefix without a status is about to be
\* classified, the lists not empty
C17_Witness ==
    /\ Classifying
    /\ HasPrefix(Head(detail).Filename, directory)
    /\ Head(detail).Status = ""
    /\ repoPaths # EmptyPaths

-----------------------------------------------------------------------------
(* C18 *)

\* what a file of a commit adds to list l, told from the file and the path
\* prefix alone
Contribution(file, prefix, l) ==
    IF ~HasPrefix(file.Filename, prefix) THEN <<>>
    ELSE CASE l = "Modified" /\ file.Status \in {"modified", "changed"} ->
                <<file.Filename>>
           [] l = "Added" /\ file.Status \in {"added", "copied", "renamed"} ->
                <<file.Filename>>
           [] l = "Removed" /\ file.Status = "removed" -> <<file.Filename>>
           [] l = "Removed" /\ file.Status = "renamed" ->
                <<file.PreviousFilename>>
           [] OTHER -> <<>>

\* C18: Filter.FileTypes has no part in GetChangedFilePathsSince of
\* src/github.go: ListCommits is passed Filter.FilePath, and classifying a
\* file appends to each list what the file's status and the path prefix tell,
\* whether or not the filename ends with one of the configured suffixes, so
\* that configurations differing only in FileTypes gather the same lists
\* from the same answers.
C18_FileTypesNotApplied ==
    [][(op' = "changes")
        => /\ pc = "idle" => opt'.Path = Configuration.Filter.FilePath
           /\ Classifying
                => \A l \in ListNames :
                     repoPaths'[l]
                        = repoPaths[l] \o Contribution(Head(detail), directory, l)]_vars

\* C18 witness: with FileTypes [".md"] the call has returned a modified file
\* under the prefix that ends with none of the suffixes
C18_Witness ==
    /\ op = "changes" /\ pc = "done" /\ ret.err = NoError
    /\ Configuration.Filter.FileTypes = << <<".md">> >>
    /\ \E i \in DOMAIN ret.paths.Modified :
        ~hasFileType(ret.paths.Modified[i], Configuration.Filter.FileTypes)

-----------------------------------------------------------------------------
(* C19 *)

\* no expression has been queried twice in one repository
NoRepeatedQuery ==
    \A i, j \in DOMAIN qlog :
        (qlog[i].repo = qlog[j].repo /\ qlog[i].expression = qlog[j].expression)
            => i = j

\* every expression queried is the root expression or names a directory an
\* earlier answer of the same repository lists
OnlyReachableQueried ==
    \A j \in DOMAIN qlog :
        \/ qlog[j].expression = RootExpression(Configuration)
        \/ \E i \in 1..(j - 1) :
            /\ qlog[i].repo = qlog[j].repo
            /\ \E k \in DOMAIN qlog[i].entries :
                /\ qlog[i].entries[k].Type = "tree"
                /\ qlog[j].expression
                     = qlog[i].expression \o <<"/">> \o qlog[i].entries[k].Name

\* C19: the walker queries directories reachable from the root expression
\* only and none of them twice, and once it has been called it returns to
\* GetFilePathsForRepositories, with its files or with an error, whatever
\* the queries answer.
C19_WalkerTerminates ==
    /\ [](NoRepeatedQuery /\ OnlyReachableQueried)
    /\ (op = "list" /\ pc = "query") ~> (pc \in {"repo", "done"})

\* C19 witness: the walker has returned from a repository after three
\* queries: the root, a directory in it and a directory in that one
C19_Witness ==
    /\ op = "list" /\ pc = "repo" /\ repoIdx = 2
    /\ Len(qlog) = 3
    /\ Len(qlog[3].expression) = Len(RootExpression(Configuration)) + 4

-----------------------------------------------------------------------------
(* C20 *)

\* the locals of the two operations hold what they hold on a fresh client
FreshLocals ==
    /\ files = <<>> /\ stack = <<>>
    /\ paths = EmptyPaths /\ repoPaths = EmptyPaths
    /\ pathsM = EmptyPaths /\ repoPathsM = NilPaths /\ heapM = EmptyHeap
    /\ commits = <<>> /\ detail = <<>>

\* the repositories the ListCommits calls of a log were issued for, in order
ListedRepos(log) ==
    LET l == SelectSeq(log, LAMBDA c : c.call = "ListCommits")
    IN [i \in DOMAIN l |-> l[i].repo]

\* the result of the call that has returned without error is made of the
\* answers of that call: every configured repository has been asked anew
ResultOfThisCall ==
    /\ op = "list"
        => /\ \A r \in Range(Configuration.Repositories) :
                QueriesOf(qlog, r) # <<>>
           /\ LET walks == RepoWalks(Len(Configuration.Repositories))
              IN ret.files = IF Configuration.Filter.FileTypes = <<>> THEN walks
                             ELSE Kept(walks, Configuration.Filter.FileTypes)
    /\ op = "changes"
        => /\ ListedRepos(clog) = Configuration.Repositories
           /\ ret.paths = paths

\* C20: no step of either operation changes Configuration; between two calls
\* the client holds nothing but Configuration, the locals of the operations
\* being what they are on a fresh client; and whatever calls the client has
\* served before, a call that returns without error has asked every
\* configured repository anew and returns what that call's answers give.
C20_NoStateSurvives ==
    /\ [][Configuration' = Configuration]_vars
    /\ []((pc = "idle") => FreshLocals)
    /\ []((pc = "done" /\ ret.err = NoError) => ResultOfThisCall)

\* C20 witness: a client that has served a call before has returned two
\* files from GetFilePathsForRepositories, a file of each of two
\* repositories
C20_Witness ==
    /\ served
    /\ op = "list" /\ pc = "done" /\ ret.err = NoError
    /\ Len(ret.files) = 2
    /\ Len(QueriesOf(qlog, 1)) = 1
    /\ Len(QueriesOf(qlog, 2)) = 1

=============================================================================
